---------------------------- MODULE Spec2Model ----------------------------
(***************************************************************************)
(* Model of screenplay_wallpaper.py: a screenplay text is cut into pages   *)
(* on line boundaries, every page is rendered to page_NNN.png, and one     *)
(* page per day is picked by (today - start_date) mod len(pages) and set   *)
(* as the desktop picture.                                                 *)
(*                                                                         *)
(* Texts are sequences of one-character strings, file names are sequences  *)
(* of character codes (so that sorted() can compare them), dates are       *)
(* proleptic Gregorian ordinals as in datetime.date.                       *)
(*                                                                         *)
(* An optional value (a file that may be absent, a local that may be       *)
(* unassigned) is a sequence of length 0 or 1: None or Some(v).            *)
(***************************************************************************)
EXTENDS Integers, Sequences, FiniteSets, TLC

VARIABLES
    script_txt,      \* <slug>.txt: None (no file) or Some(text)
    dir,             \* wallpapers_<slug>/: the set of page_*.png names in it
    meta,            \* <slug>_meta.json: None (no file) or Some(content)
    clock,           \* what dt.date.today() returns (an ordinal)
    pc,              \* position of the run in main()
    err,             \* the exception that ended the run, "" when none
    words_per_page,  \* the budget given to the paginator on its own
    full_text,       \* ensure_wallpapers: full_text, None when not loaded
    pages,           \* ensure_wallpapers: pages, the page texts
    image_paths,     \* main: image_paths, None when the call did not return
    start_date,      \* main: start_date, None when the call did not return
    today_page,      \* main: today_page, None when the call did not return
    out,             \* what the run printed, one tag per print()
    os_calls         \* the subprocess.run() calls of the run, in order

vars == <<script_txt, dir, meta, clock, pc, err, words_per_page, full_text,
          pages, image_paths, start_date, today_page, out, os_calls>>

----------------------------------------------------------------------------
(* Bounds of the model *)

\* longest text given to chunk_into_pages_by_words_and_lines on its own
MaxTextLen == 7

\* largest --words-per-page
MaxWordsPerPage == 3

\* longest text the download returns in a run of main
MaxScriptLen == 3

\* number of consecutive calendar days the clock ranges over
MaxDays == 3

\* largest page list given to pick_page_for_date on its own
MaxPages == 4

\* largest N of the periodicity check
MaxPeriods == 2

----------------------------------------------------------------------------
(* Optional values *)

None == <<>>

Some(v) == <<v>>

Get(o) == o[1]

Range(s) == {s[i] : i \in DOMAIN s}

----------------------------------------------------------------------------
(* Text: str.splitlines, str.join, str.split, the word count of a line *)

NL == "\n"

SP == " "

TAB == "\t"

\* position of the first c in t, 0 when there is none
Find(t, c) ==
    IF \E i \in DOMAIN t : t[i] = c
    THEN CHOOSE i \in DOMAIN t : t[i] = c /\ \A j \in 1..(i - 1) : t[j] # c
    ELSE 0

\* text.splitlines(): a final line break opens no further line
RECURSIVE splitlines(_)
splitlines(t) ==
    IF t = <<>> THEN <<>>
    ELSE LET i == Find(t, NL) IN
         IF i = 0 THEN <<t>>
         ELSE <<SubSeq(t, 1, i - 1)>> \o splitlines(SubSeq(t, i + 1, Len(t)))

\* text.split("\n"): always at least one piece
RECURSIVE split_nl(_)
split_nl(t) ==
    LET i == Find(t, NL) IN
    IF i = 0 THEN <<t>>
    ELSE <<SubSeq(t, 1, i - 1)>> \o split_nl(SubSeq(t, i + 1, Len(t)))

\* "\n".join(lines)
RECURSIVE join_nl(_)
join_nl(lines) ==
    IF lines = <<>> THEN <<>>
    ELSE IF Len(lines) = 1 THEN lines[1]
    ELSE lines[1] \o <<NL>> \o join_nl(Tail(lines))

IsSpace(c) == c \in {SP, NL, TAB}

\* len(line.strip().split()) if line.strip() else 0
words_in(line) ==
    Cardinality({i \in DOMAIN line :
                    /\ ~IsSpace(line[i])
                    /\ (i = 1 \/ IsSpace(line[i - 1]))})

----------------------------------------------------------------------------
(* chunk_into_pages_by_words_and_lines *)

\* a flush that tests the word count of the page, not its lines
ClosesPage_ByCount(current_lines, current_word_count, words_in_line, wpp) ==
    current_word_count + words_in_line > wpp /\ current_word_count > 0

\* a flush that leaves the words of the line itself out of the test
ClosesPage_IgnoresLine(current_lines, current_word_count, words_in_line, wpp) ==
    current_word_count > wpp /\ current_lines # <<>>

\* the flush inside the loop: a page is closed before the line is appended
\* when the line would exceed the budget and the page already has a line
ClosesPage(current_lines, current_word_count, words_in_line, wpp) ==
    current_word_count + words_in_line > wpp /\ current_lines # <<>>

\* a loop that forgets the page in progress when the lines run out
FinalPages_NoFlush(pgs, current_lines) == pgs

\* the flush after the loop
FinalPages(pgs, current_lines) ==
    IF current_lines # <<>> THEN Append(pgs, join_nl(current_lines)) ELSE pgs

\* the for loop over lines, from line i on
RECURSIVE chunk_loop(_, _, _, _, _, _)
chunk_loop(lines, i, pgs, current_lines, current_word_count, wpp) ==
    IF i > Len(lines) THEN FinalPages(pgs, current_lines)
    ELSE LET words_in_line == words_in(lines[i]) IN
         IF ClosesPage(current_lines, current_word_count, words_in_line, wpp)
         THEN chunk_loop(lines, i + 1, Append(pgs, join_nl(current_lines)),
                         <<lines[i]>>, words_in_line, wpp)
         ELSE chunk_loop(lines, i + 1, pgs, Append(current_lines, lines[i]),
                         current_word_count + words_in_line, wpp)

chunk_into_pages_by_words_and_lines(text, wpp) ==
    chunk_loop(splitlines(text), 1, <<>>, <<>>, 0, wpp)


----------------------------------------------------------------------------
(* datetime.date: ordinals, isoformat, fromisoformat *)

IsLeap(y) == y % 4 = 0 /\ (y % 100 # 0 \/ y % 400 = 0)

DaysInMonth(y, m) ==
    IF m = 2 THEN (IF IsLeap(y) THEN 29 ELSE 28)
    ELSE IF m \in {4, 6, 9, 11} THEN 30 ELSE 31

RECURSIVE DaysBeforeMonth(_, _)
DaysBeforeMonth(y, m) ==
    IF m <= 1 THEN 0 ELSE DaysBeforeMonth(y, m - 1) + DaysInMonth(y, m - 1)

\* days before January 1st of year y, counted from 0001-01-01
DaysBeforeYear(y) ==
    LET p == y - 1 IN p * 365 + p \div 4 - p \div 100 + p \div 400

\* date(y, m, d).toordinal()
ToOrdinal(y, m, d) == DaysBeforeYear(y) + DaysBeforeMonth(y, m) + d

\* date(y, m, d) exists
IsDate(y, m, d) ==
    /\ y \in 1..9999
    /\ m \in 1..12
    /\ d \in 1..DaysInMonth(y, m)

\* date.isoformat(): the text YYYY-MM-DD of an ordinal, as its three numbers
isoformat(o) ==
    LET g == (o * 400) \div 146097 + 1
        y == IF DaysBeforeYear(g) >= o THEN g - 1
             ELSE IF DaysBeforeYear(g + 1) < o THEN g + 1 ELSE g
        n == o - DaysBeforeYear(y)
        m == CHOOSE k \in 1..12 :
                 DaysBeforeMonth(y, k) < n /\ n <= DaysBeforeMonth(y, k) + DaysInMonth(y, k)
    IN <<y, m, n - DaysBeforeMonth(y, m)>>

\* date.fromisoformat(s) for a text of the shape YYYY-MM-DD: the ordinal,
\* None when it raises ValueError
fromisoformat(s) ==
    IF IsDate(s[1], s[2], s[3]) THEN Some(ToOrdinal(s[1], s[2], s[3])) ELSE None

\* the first day of the model's calendar window: 2024-02-27, so that the
\* window crosses the leap day and a month boundary
FirstDay == ToOrdinal(2024, 2, 27)

Days == FirstDay..(FirstDay + MaxDays - 1)

----------------------------------------------------------------------------
(* download_and_store_script: the normalisation of the downloaded text *)

\* the characters the normaliser maps to a space; each name is one character
NBSP == "U+00A0"

FIGURE_SPACE == "U+2007"

NARROW_NBSP == "U+202F"

\* the marks the normaliser drops at the start of a line
LineStartMarks == {"U+FEFF", "U+200B", "U+200C", "U+200D"}

FourSpaces == <<SP, SP, SP, SP>>

\* text.replace(c, r)
RECURSIVE replace(_, _, _)
replace(t, c, r) ==
    IF t = <<>> THEN <<>>
    ELSE (IF t[1] = c THEN r ELSE <<t[1]>>) \o replace(Tail(t), c, r)

\* re.sub(r"^[\ufeff\u200b\u200c\u200d]+", "", line)
RECURSIVE strip_marks(_)
strip_marks(line) ==
    IF line # <<>> /\ line[1] \in LineStartMarks THEN strip_marks(Tail(line))
    ELSE line

\* the text written to <slug>.txt for a downloaded text
cleaned(text) ==
    LET spaced == replace(replace(replace(replace(text, NBSP, <<SP>>),
                       FIGURE_SPACE, <<SP>>), NARROW_NBSP, <<SP>>), TAB, FourSpaces)
        ls == splitlines(spaced)
    IN join_nl([i \in DOMAIN ls |-> strip_marks(ls[i])])

----------------------------------------------------------------------------
(* ensure_wallpapers: the names of the page files and their sorted listing *)

\* the width of the page index in a file name: {idx:03d}
PadWidth == 3

\* the character codes of "page_" and ".png"
PagePrefix == <<112, 97, 103, 101, 95>>

PageSuffix == <<46, 112, 110, 103>>

\* the decimal digits of n >= 0, as character codes
RECURSIVE Digits(_)
Digits(n) ==
    IF n < 10 THEN <<48 + n>> ELSE Digits(n \div 10) \o <<48 + (n % 10)>>

\* format(idx, "03d"): zeros on the left up to the width, never a cut
ZeroPad(ds, width) ==
    IF Len(ds) >= width THEN ds
    ELSE [i \in 1..(width - Len(ds)) |-> 48] \o ds

\* f"page_{idx:03d}.png"
page_name(idx) == PagePrefix \o ZeroPad(Digits(idx), PadWidth) \o PageSuffix

\* a < b for two file names, character by character
LexLess(a, b) ==
    LET n == IF Len(a) < Len(b) THEN Len(a) ELSE Len(b)
        D == {i \in 1..n : a[i] # b[i]}
    IN IF D = {} THEN Len(a) < Len(b)
       ELSE LET k == CHOOSE i \in D : \A j \in D : i <= j IN a[k] < b[k]

\* sorted(output_dir.glob("page_*.png")): every name at its rank
sorted_paths(S) ==
    LET Ranked == {<<Cardinality({y \in S : LexLess(y, x)}) + 1, x>> : x \in S}
    IN [r \in 1..Cardinality(S) |-> (CHOOSE p \in Ranked : p[1] = r)[2]]

\* a cache test that never finds the cache
HasExisting_Never(existing) == FALSE

\* "if existing:": a non-empty listing is the cache
HasExisting(existing) == existing # <<>>

----------------------------------------------------------------------------
(* get_or_create_start_date *)

\* contents of <slug>_meta.json
\*   not_json:   json.loads raises
\*   not_object: JSON, but data["start_date"] raises TypeError (a list, a number)
\*   no_key:     an object without "start_date"
\*   not_iso:    "start_date" is a string that has not the shape of a date
\*   object:     "start_date" is a string YYYY-MM-DD, held as <<y, m, d>>
MetaFile(kind, s) == [kind |-> kind, start_date |-> s]

\* json.dumps({"start_date": today.isoformat()}, indent=2)
MetaFor(today) == MetaFile("object", isoformat(today))

\* dt.date.fromisoformat(data["start_date"]) inside the try: the date, or
\* None for any exception the except clause swallows
parsed_start_date(content) ==
    IF content.kind = "object" THEN fromisoformat(content.start_date) ELSE None

\* json.loads(meta_path.read_text()) raises: it stands outside the try
loads_raises(content) == content.kind = "not_json"

\* a call that writes the current date whatever the file holds
get_or_create_start_date_AlwaysToday(m, today) ==
    [ret |-> Some(today), file |-> Some(MetaFor(today))]

\* the call as a whole, for the file m and the current date today:
\*   ret   the date returned, None when the call raises
\*   file  the file after the call
get_or_create_start_date(m, today) ==
    IF m # None /\ loads_raises(Get(m))
    THEN [ret |-> None, file |-> m]
    ELSE IF m # None /\ parsed_start_date(Get(m)) # None
    THEN [ret |-> parsed_start_date(Get(m)), file |-> m]
    ELSE [ret |-> Some(today), file |-> Some(MetaFor(today))]

----------------------------------------------------------------------------
(* pick_page_for_date *)

\* the day difference without the clamp
days_since_Unclamped(start, today) == today - start

\* days_since, negative values clamped to zero
days_since(start, today) ==
    IF today - start < 0 THEN 0 ELSE today - start

\* an index that stops at the last page instead of going round
page_index_Saturating(days, n) == IF days < n THEN days ELSE n - 1

\* idx = days_since % len(image_paths)
page_index(days, n) == days % n

\* a pick that answers an empty path for an empty list instead of raising
pick_page_for_date_NoRaise(paths, start, today) ==
    IF Len(paths) = 0 THEN Some(<<>>)
    ELSE Some(paths[((IF today - start < 0 THEN 0 ELSE today - start) % Len(paths)) + 1])

\* the page picked, None when the modulus by len(image_paths) = 0 raises
pick_page_for_date(paths, start, today) ==
    IF Len(paths) = 0 THEN None
    ELSE Some(paths[page_index(days_since(start, today), Len(paths)) + 1])

----------------------------------------------------------------------------
(* Inputs *)

\* the characters of a text given to the paginator
Chars == {"w", SP, NL}

\* the characters of a downloaded text
RawChars == {"w", TAB, NL}

\* all texts over cs of at most n characters
TextsOver(cs, n) == UNION {[1..k -> cs] : k \in 0..n}

Downloads == TextsOver(RawChars, MaxScriptLen)

\* what an outside writer may leave in <slug>_meta.json: nothing, or a
\* content that holds no start date
BrokenMetas ==
    {MetaFile(k, <<>>) : k \in {"not_json", "not_object", "no_key", "not_iso"}}
      \cup {MetaFile("object", <<2024, 2, 30>>)}

----------------------------------------------------------------------------
(* A run of main(): ensure_wallpapers, get_or_create_start_date,          *)
(* pick_page_for_date, then the three subprocess steps.  A run starts in  *)
(* any state a former run ended in; the locals image_paths, start_date    *)
(* and today_page keep the value they had when that run ended until the   *)
(* new run assigns them.                                                  *)

Ended == {"idle", "done", "failed"}

Call(cmd, arg) == [cmd |-> cmd, arg |-> arg]

\* unify_wallpaper_spaces(): two calls, their exit codes not looked at
unify_wallpaper_spaces == <<Call("defaults", <<>>), Call("killall", <<>>)>>

\* set_wallpaper_for_all_displays(image_path)
set_wallpaper_for_all_displays(path) == <<Call("osascript", path)>>

\* what requests.get may return when load_script_text has to download;
\* nothing is fetched when <slug>.txt exists
Fetchable == IF script_txt # None THEN {<<>>} ELSE Downloads

\* load_script_text: the cached text, or the download normalised
LoadedText(raw) == IF script_txt # None THEN Get(script_txt) ELSE cleaned(raw)

LoadTag == IF script_txt # None THEN "using_cached_script" ELSE "downloading"

\* the start of every run: a new process, no subprocess call made yet
RunStarts ==
    /\ pc \in Ended
    /\ os_calls' = <<>>

\* ensure_wallpapers finds page files and returns their sorted listing
EnsureCached ==
    /\ RunStarts
    /\ HasExisting(sorted_paths(dir))
    /\ image_paths' = Some(sorted_paths(dir))
    /\ out' = <<"slug", "found">>
    /\ pc' = "start_date"
    /\ err' = ""
    /\ full_text' = None
    /\ pages' = <<>>
    /\ UNCHANGED <<script_txt, dir, meta, clock, words_per_page, start_date,
                   today_page>>

\* no page file, no cached text, and requests.get or raise_for_status raises
EnsureFetchFails ==
    /\ RunStarts
    /\ ~HasExisting(sorted_paths(dir))
    /\ script_txt = None
    /\ out' = <<"slug", "downloading">>
    /\ pc' = "failed"
    /\ err' = "fetch"
    /\ image_paths' = None
    /\ full_text' = None
    /\ pages' = <<>>
    /\ UNCHANGED <<script_txt, dir, meta, clock, words_per_page, start_date,
                   today_page>>

\* no page file: the text is loaded, cut into pages, every page rendered
EnsureGenerated ==
    \E wpp \in 1..MaxWordsPerPage, raw \in Fetchable :
        LET text == LoadedText(raw)
            pgs == chunk_into_pages_by_words_and_lines(text, wpp)
        IN /\ RunStarts
           /\ ~HasExisting(sorted_paths(dir))
           /\ script_txt' = Some(text)
           /\ full_text' = Some(text)
           /\ pages' = pgs
           /\ dir' = dir \cup {page_name(idx) : idx \in 1..Len(pgs)}
           /\ image_paths' = Some([idx \in 1..Len(pgs) |-> page_name(idx)])
           /\ out' = <<"slug", LoadTag, "split">>
                       \o [idx \in 1..Len(pgs) |-> "generating"]
           /\ pc' = "start_date"
           /\ err' = ""
           /\ UNCHANGED <<meta, clock, words_per_page, start_date, today_page>>

\* as EnsureGenerated, but render_page_to_image raises at page fail_at:
\* the pages before it are on disk, the call does not return
EnsureRenderFails ==
    \E wpp \in 1..MaxWordsPerPage, raw \in Fetchable :
        LET text == LoadedText(raw)
            pgs == chunk_into_pages_by_words_and_lines(text, wpp)
        IN \E fail_at \in 1..Len(pgs) :
           /\ RunStarts
           /\ ~HasExisting(sorted_paths(dir))
           /\ script_txt' = Some(text)
           /\ full_text' = Some(text)
           /\ pages' = pgs
           /\ dir' = dir \cup {page_name(idx) : idx \in 1..(fail_at - 1)}
           /\ image_paths' = None
           /\ out' = <<"slug", LoadTag, "split">>
                       \o [idx \in 1..fail_at |-> "generating"]
           /\ pc' = "failed"
           /\ err' = "render"
           /\ UNCHANGED <<meta, clock, words_per_page, start_date, today_page>>

\* start_date = get_or_create_start_date(slug)
GetStartDate ==
    /\ pc = "start_date"
    /\ LET r == get_or_create_start_date(meta, clock)
       IN /\ meta' = r.file
          /\ start_date' = r.ret
          /\ pc' = IF r.ret = None THEN "failed" ELSE "pick"
          /\ err' = IF r.ret = None THEN "json" ELSE err
    /\ UNCHANGED <<script_txt, dir, clock, words_per_page, full_text, pages,
                   image_paths, today_page, out, os_calls>>

\* today_page = pick_page_for_date(image_paths, start_date)
PickPage ==
    /\ pc = "pick"
    /\ LET r == pick_page_for_date(Get(image_paths), Get(start_date), clock)
       IN /\ today_page' = r
          /\ pc' = IF r = None THEN "failed" ELSE "apply"
          /\ err' = IF r = None THEN "no_pages" ELSE err
          /\ out' = IF r = None THEN out ELSE Append(out, "todays_page")
    /\ UNCHANGED <<script_txt, dir, meta, clock, words_per_page, full_text,
                   pages, image_paths, start_date, os_calls>>

\* unify, set the wallpaper, unify: osascript succeeds
ApplyWallpaper ==
    /\ pc = "apply"
    /\ os_calls' = unify_wallpaper_spaces
                     \o set_wallpaper_for_all_displays(Get(today_page))
                     \o unify_wallpaper_spaces
    /\ out' = Append(out, "updated")
    /\ pc' = "done"
    /\ UNCHANGED <<script_txt, dir, meta, clock, err, words_per_page, full_text,
                   pages, image_paths, start_date, today_page>>

\* osascript exits non-zero: check=True raises CalledProcessError
ApplyFails ==
    /\ pc = "apply"
    /\ os_calls' = unify_wallpaper_spaces
                     \o set_wallpaper_for_all_displays(Get(today_page))
    /\ pc' = "failed"
    /\ err' = "osascript"
    /\ UNCHANGED <<script_txt, dir, meta, clock, words_per_page, full_text,
                   pages, image_paths, start_date, today_page, out>>

\* the calendar date changes, forwards or backwards
SetClock ==
    /\ \E d \in Days \ {clock} : clock' = d
    /\ UNCHANGED <<script_txt, dir, meta, pc, err, words_per_page, full_text,
                   pages, image_paths, start_date, today_page, out, os_calls>>

\* somebody else deletes or overwrites <slug>_meta.json
TamperMeta ==
    /\ \E m \in {None} \cup {Some(c) : c \in BrokenMetas} : meta' = m /\ m # meta
    /\ UNCHANGED <<script_txt, dir, clock, pc, err, words_per_page, full_text,
                   pages, image_paths, start_date, today_page, out, os_calls>>

Init ==
    /\ pc = "idle"
    /\ script_txt = None
    /\ dir = {}
    /\ meta = None
    /\ clock \in Days
    /\ err = ""
    /\ words_per_page = 1
    /\ full_text = None
    /\ pages = <<>>
    /\ image_paths = None
    /\ start_date = None
    /\ today_page = None
    /\ out = <<>>
    /\ os_calls = <<>>

\* the runs with nobody else writing the files
NextClosed ==
    \/ EnsureCached
    \/ EnsureFetchFails
    \/ EnsureGenerated
    \/ EnsureRenderFails
    \/ GetStartDate
    \/ PickPage
    \/ ApplyWallpaper
    \/ ApplyFails
    \/ SetClock

SpecClosed == Init /\ [][NextClosed]_vars

Next == NextClosed \/ TamperMeta

Spec == Init /\ [][Next]_vars

----------------------------------------------------------------------------
(* Claims about the runs *)

\* a step that starts a run: the former run has ended, and it is neither
\* the clock nor the meta file that changes
RunStartStep == pc \in Ended /\ meta' = meta /\ clock' = clock

\* a step that is the call of get_or_create_start_date
StartDateStep == pc = "start_date" /\ pc' # "start_date"

\* the tags a run prints when it loads the text, cuts it or renders a page
LoadTags == {"downloading", "using_cached_script"}

WorkTags == {"split", "generating"}

Printed(tags) == \E i \in DOMAIN out' : out'[i] \in tags

SamePages(a, b) == Len(a) = Len(b) /\ Range(a) = Range(b)

\* C5: with nobody else writing the record, the first call persists and
\* returns the current date; every later call, whatever the current date,
\* returns that date again and leaves the record as it is.
C5_StartDateFixedOnceCreated ==
    [][StartDateStep =>
          IF meta = None
          THEN /\ start_date' = Some(clock)
               /\ meta' # None
               /\ parsed_start_date(Get(meta')) = Some(clock)
          ELSE /\ meta' = meta
               /\ start_date # None
               /\ start_date' = start_date]_vars

C5_Witness ==
    /\ pc = "pick"
    /\ out = <<"slug", "found">>
    /\ meta # None
    /\ clock < Get(start_date)

\* the record holds no start date: no file, or a content that does not
\* parse to a calendar date
Unusable(m) == m = None \/ parsed_start_date(Get(m)) = None

\* C6: whenever the record is missing or unparsable in any way, the call
\* raises nothing, persists the current date and returns it.
C6_UnusableRecordIsReinitialised ==
    [][(StartDateStep /\ Unusable(meta)) =>
          /\ pc' = "pick"
          /\ start_date' = Some(clock)
          /\ meta' = Some(MetaFor(clock))]_vars

\* C7 as stated: once a run has returned a page list, a later run returns
\* the same pages and neither fetches nor paginates nor renders.
C7_AnyReturnedListIsFinal ==
    [][(RunStartStep /\ image_paths # None) =>
          /\ pc' = "start_date"
          /\ image_paths' # None
          /\ SamePages(Get(image_paths'), Get(image_paths))
          /\ dir' = dir
          /\ script_txt' = script_txt
          /\ ~Printed(LoadTags \cup WorkTags)]_vars

\* C7 amended: once a run has returned a non-empty page list, a later run
\* returns the same pages (same count, same files) and neither fetches nor
\* paginates nor renders; after a run that returned an empty list a later
\* run returns the empty list again without fetching, but it reads the
\* cached text and paginates it again.
C7_NonEmptyReturnedListIsFinal ==
    [][(RunStartStep /\ image_paths # None) =>
          /\ pc' = "start_date"
          /\ image_paths' # None
          /\ SamePages(Get(image_paths'), Get(image_paths))
          /\ dir' = dir
          /\ script_txt' = script_txt
          /\ ~Printed({"downloading"})
          /\ Get(image_paths) # <<>> => ~Printed(LoadTags \cup WorkTags)
          /\ Get(image_paths) = <<>> => Printed({"using_cached_script"})
                                          /\ Printed({"split"})]_vars

C7_Witness ==
    /\ pc = "start_date"
    /\ out = <<"slug", "found">>
    /\ Len(Get(image_paths)) >= 2
    /\ script_txt # None

\* the errors that end a run before a page is selected
SelectionErrors == {"fetch", "render", "json", "no_pages"}

\* C8: a subprocess call is made only in a run in which the page list, the
\* start date and the page of the day have all been obtained, and the page
\* set is that page; a run ended by a fetch error, a render failure, an
\* unreadable record or an empty page list has made no call.
C8_WallpaperOnlyAfterSelection ==
    /\ os_calls # <<>> =>
          /\ image_paths # None
          /\ Get(image_paths) # <<>>
          /\ start_date # None
          /\ today_page # None
          /\ Get(today_page) \in Range(Get(image_paths))
          /\ err \notin SelectionErrors
          /\ \A i \in DOMAIN os_calls :
                os_calls[i].cmd = "osascript" => os_calls[i].arg = Get(today_page)
    /\ (pc = "failed" /\ err \in SelectionErrors) => os_calls = <<>>

C8_Witness ==
    /\ pc = "failed"
    /\ err = "no_pages"
    /\ image_paths = Some(<<>>)
    /\ start_date # None
    /\ meta # None
    /\ os_calls = <<>>

----------------------------------------------------------------------------
(* The paginator on its own: every text and every budget within bounds *)

InitChunk ==
    /\ pc = "chunk"
    /\ full_text \in {Some(t) : t \in TextsOver(Chars, MaxTextLen)}
    /\ words_per_page \in 1..MaxWordsPerPage
    /\ script_txt = None
    /\ dir = {}
    /\ meta = None
    /\ clock = FirstDay
    /\ err = ""
    /\ pages = <<>>
    /\ image_paths = None
    /\ start_date = None
    /\ today_page = None
    /\ out = <<>>
    /\ os_calls = <<>>

\* pages = chunk_into_pages_by_words_and_lines(full_text, words_per_page)
ChunkStep ==
    /\ pc = "chunk"
    /\ pages' = chunk_into_pages_by_words_and_lines(Get(full_text), words_per_page)
    /\ pc' = "chunked"
    /\ UNCHANGED <<script_txt, dir, meta, clock, err, words_per_page, full_text,
                   image_paths, start_date, today_page, out, os_calls>>

NextChunk == ChunkStep

SpecChunk == InitChunk /\ [][NextChunk]_vars

\* the lines of a page, as render_page_to_image takes them apart
LinesOf(page) == split_nl(page)

RECURSIVE Flatten(_)
Flatten(ss) == IF ss = <<>> THEN <<>> ELSE ss[1] \o Flatten(Tail(ss))

RECURSIVE WordTotal(_)
WordTotal(lines) ==
    IF lines = <<>> THEN 0 ELSE words_in(lines[1]) + WordTotal(Tail(lines))

InputLines == splitlines(Get(full_text))

OverBudget(line) == words_in(line) > words_per_page

\* C1: the pages partition the input lines: every page holds at least one
\* line, the lines of all pages in page order are exactly the input lines,
\* and an input without lines gives no page.
C1_Partition ==
    pc = "chunked" =>
        /\ \A p \in DOMAIN pages : Len(LinesOf(pages[p])) >= 1
        /\ Flatten([p \in DOMAIN pages |-> LinesOf(pages[p])]) = InputLines
        /\ (InputLines = <<>> => pages = <<>>)

C1_Witness ==
    /\ pc = "chunked"
    /\ Len(pages) >= 2
    /\ \E p \in DOMAIN pages : Len(LinesOf(pages[p])) >= 2

\* C2: a line with more words than words_per_page is the only line of its
\* page, whatever precedes or follows it, and every such input line is
\* the line of one such page (none dropped, none split).
C2_OverBudgetLineAlone ==
    pc = "chunked" =>
        /\ \A p \in DOMAIN pages :
              (\E k \in DOMAIN LinesOf(pages[p]) : OverBudget(LinesOf(pages[p])[k]))
                  => Len(LinesOf(pages[p])) = 1
        /\ Cardinality({i \in DOMAIN InputLines : OverBudget(InputLines[i])})
             = Cardinality({p \in DOMAIN pages : LinesOf(pages[p]) = <<pages[p]>>
                                                  /\ OverBudget(pages[p])})

C2_Witness ==
    /\ pc = "chunked"
    /\ \E p \in DOMAIN pages :
          /\ 1 < p /\ p < Len(pages)
          /\ OverBudget(pages[p])
          /\ WordTotal(LinesOf(pages[p + 1])) = 0

\* C10: a page of two or more lines holds at most words_per_page words;
\* only a page made of one line goes over the budget.
C10_MultiLinePageWithinBudget ==
    pc = "chunked" =>
        \A p \in DOMAIN pages :
            Len(LinesOf(pages[p])) >= 2
                => WordTotal(LinesOf(pages[p])) <= words_per_page

C10_Witness ==
    /\ pc = "chunked"
    /\ \E p \in DOMAIN pages :
          /\ p < Len(pages)
          /\ Len(LinesOf(pages[p])) >= 2
          /\ WordTotal(LinesOf(pages[p])) = words_per_page
          /\ words_per_page >= 2

----------------------------------------------------------------------------
(* pick_page_for_date on its own: every page count, start date and day *)

PagePaths(n) == [idx \in 1..n |-> page_name(idx)]

\* the days handed to pick_page_for_date: enough to go round every list twice
PickDays == FirstDay..(FirstDay + 2 * MaxPages)

InitPick ==
    /\ pc = "pick"
    /\ image_paths \in {Some(PagePaths(n)) : n \in 0..MaxPages}
    /\ start_date \in {Some(d) : d \in Days}
    /\ clock \in PickDays
    /\ script_txt = None
    /\ dir = {}
    /\ meta = None
    /\ err = ""
    /\ words_per_page = 1
    /\ full_text = None
    /\ pages = <<>>
    /\ today_page = None
    /\ out = <<>>
    /\ os_calls = <<>>

NextPick == PickPage

SpecPick == InitPick /\ [][NextPick]_vars

Picked == pc = "apply"

\* C3 as stated: the page picked for today is the page picked for
\* today + N * len(pages), for every start date, every today and N >= 0.
C3_PeriodicForEveryToday ==
    Picked =>
        \A N \in 0..MaxPeriods :
            pick_page_for_date(Get(image_paths), Get(start_date),
                               clock + N * Len(Get(image_paths))) = today_page

\* C3 amended: the same, for today on or after start_date.
C3_PeriodicFromStartDate ==
    (Picked /\ clock >= Get(start_date)) =>
        \A N \in 0..MaxPeriods :
            pick_page_for_date(Get(image_paths), Get(start_date),
                               clock + N * Len(Get(image_paths))) = today_page

C3_Witness ==
    /\ Picked
    /\ clock - Get(start_date) > Len(Get(image_paths))
    /\ today_page # Some(Get(image_paths)[1])

\* C4: with today on or before start_date the first page is picked.
C4_FirstPageUntilStartDate ==
    (Picked /\ clock <= Get(start_date)) => today_page = Some(Get(image_paths)[1])

C4_Witness ==
    /\ Picked
    /\ clock < Get(start_date)
    /\ Len(Get(image_paths)) >= 2

----------------------------------------------------------------------------
(* The naming of the page files: the rendering loop of ensure_wallpapers  *)
(* step by step, then the listing a later run gets from the directory.    *)

RECURSIVE Pow10(_)
Pow10(k) == IF k = 0 THEN 1 ELSE 10 * Pow10(k - 1)

\* the page counts tried: the small ones, and those around the first index
\* that no longer fits the padded width
PageCounts == (0..MaxPages) \cup {Pow10(PadWidth) - 1, Pow10(PadWidth)}

\* the pages of a text of n lines of one word each, cut with a budget of 1
OneWordPages(n) == [i \in 1..n |-> <<"w">>]

InitNames ==
    /\ pc = "render"
    /\ pages \in {OneWordPages(n) : n \in PageCounts}
    /\ image_paths = Some(<<>>)
    /\ dir = {}
    /\ start_date = Some(FirstDay)
    /\ clock \in {FirstDay, FirstDay + Pow10(PadWidth - 1)}
    /\ script_txt = None
    /\ meta = None
    /\ err = ""
    /\ words_per_page = 1
    /\ full_text = None
    /\ today_page = None
    /\ out = <<>>
    /\ os_calls = <<>>

\* one turn of the loop: the next page is rendered to its file
RenderPage ==
    /\ pc = "render"
    /\ Len(Get(image_paths)) < Len(pages)
    /\ LET out_path == page_name(Len(Get(image_paths)) + 1)
       IN /\ dir' = dir \cup {out_path}
          /\ image_paths' = Some(Append(Get(image_paths), out_path))
    /\ out' = Append(out, "generating")
    /\ UNCHANGED <<script_txt, meta, clock, pc, err, words_per_page, full_text,
                   pages, start_date, today_page, os_calls>>

\* the loop is over: the list is returned and today's page picked from it
ReturnGenerated ==
    /\ pc = "render"
    /\ Len(Get(image_paths)) = Len(pages)
    /\ today_page' = pick_page_for_date(Get(image_paths), Get(start_date), clock)
    /\ pc' = "generated"
    /\ UNCHANGED <<script_txt, dir, meta, clock, err, words_per_page, full_text,
                   pages, image_paths, start_date, out, os_calls>>

\* a later run on the same day: the sorted listing, and the page picked from it
ListAgain ==
    /\ pc = "generated"
    /\ image_paths' = Some(sorted_paths(dir))
    /\ today_page' = pick_page_for_date(sorted_paths(dir), Get(start_date), clock)
    /\ pc' = "listed"
    /\ UNCHANGED <<script_txt, dir, meta, clock, err, words_per_page, full_text,
                   pages, start_date, out, os_calls>>

NextNames == RenderPage \/ ReturnGenerated \/ ListAgain

SpecNames == InitNames /\ [][NextNames]_vars

\* C9: the list a later run gets by sorting the file names is, position by
\* position, the list the generating run returned, and both runs pick the
\* same page for the same day.
C9_SortedListingIsGeneratedList ==
    [][(pc = "generated" /\ pc' = "listed")
          => (image_paths' = image_paths /\ today_page' = today_page)]_vars

=============================================================================
